---------------------------- MODULE Spec2Model ----------------------------
(***************************************************************************)
(* Model of scripts/tag-release.mjs: the release-tagging runner.           *)
(*                                                                         *)
(* The script parses the --tag option, throws when it is falsy, and        *)
(* otherwise calls main(tag).  main reads and parses the publish summary   *)
(* and maps every entry to a call of exec = promisify(execSync).           *)
(*                                                                         *)
(* Platform semantics the model relies on (Node.js, current defaults):     *)
(*  - execSync(command, options) blocks the JavaScript thread until the    *)
(*    child process has exited, ignores any further argument, and throws   *)
(*    when the child exits non-zero;                                       *)
(*  - promisify(f)(...args) runs f(...args, callback) inside a Promise     *)
(*    executor: a throw of f rejects the promise, and the promise is       *)
(*    otherwise settled only by the callback, which execSync never calls;  *)
(*  - Promise.all treats a non-promise element as already fulfilled;       *)
(*  - a promise rejected with no handler is reported once the microtask    *)
(*    queue has drained and ends the process with exit code 1              *)
(*    (--unhandled-rejections=throw, the default since Node 15).           *)
(***************************************************************************)
EXTENDS Integers, Sequences, FiniteSets, TLC

VARIABLES
  tag,            \* the parsed --tag option: <<>> (undefined) or <<string>>
  file,           \* ../lerna-publish-summary.json on disk
  pc,             \* position of the script
  summaryRead,    \* readFile has delivered the file's text
  publishSummary, \* main's local: the parsed summary
  i,              \* index of the next entry Array.prototype.map visits
  mapped,         \* the array map builds: 0 is undefined, k the promise of call k
  invocations,    \* external commands issued so far, in order of issue
  allPromise,     \* the promise Promise.all returned
  mainPromise,    \* the promise main(tag) returned
  exitCode,       \* -1 while the process runs
  uncaught        \* the error the process reported, "" when none

vars == <<tag, file, pc, summaryRead, publishSummary, i, mapped, invocations,
          allPromise, mainPromise, exitCode, uncaught>>

(***************************************************************************)
(* Bounds and input domains                                                *)
(***************************************************************************)
MaxEntries == 2

PackageNames == {"pkg-a", "pkg-b"}
Versions == {"1.0.0", "2.3.1"}
Entries == [packageName : PackageNames, version : Versions]
TagValues == {"", "latest", "next"}

SeqsUpTo(S, n) == UNION {[1..m -> S] : m \in 0..n}

Range(s) == {s[k] : k \in DOMAIN s}

\* the multiset of the elements of a sequence
BagOfSeq(s) == [x \in Range(s) |-> Cardinality({k \in DOMAIN s : s[k] = x})]

Undefined == <<>>
Files ==
  {[kind |-> k, entries |-> <<>>] : k \in {"missing", "unreadable", "invalid"}}
  \cup {[kind |-> "json", entries |-> es] : es \in SeqsUpTo(Entries, MaxEntries)}

(***************************************************************************)
(* Pure parts of the script                                                *)
(***************************************************************************)
\* !tag
FalsyUndefinedOnly(t) == t = Undefined
Falsy(t) == IF t = Undefined THEN TRUE ELSE t[1] = ""

\* `npm dist-tag add ${packageName}@${version} ${tag}`
CommandForSwapped(e, t) ==
  "npm dist-tag add " \o e.packageName \o "@" \o t \o " " \o e.version
CommandFor(e, t) ==
  "npm dist-tag add " \o e.packageName \o "@" \o e.version \o " " \o t

\* await readFile(path, 'utf8'): the text is delivered, or the await throws
ReadFile(f) ==
  CASE f.kind = "missing" -> [ok |-> FALSE, error |-> "ENOENT"]
    [] f.kind = "unreadable" -> [ok |-> FALSE, error |-> "EACCES"]
    [] OTHER -> [ok |-> TRUE, error |-> ""]

\* JSON.parse(text)
JSONParseLenient(f) == [ok |-> TRUE, error |-> "", value |-> f.entries]
JSONParse(f) ==
  IF f.kind = "json"
  THEN [ok |-> TRUE, error |-> "", value |-> f.entries]
  ELSE [ok |-> FALSE, error |-> "SyntaxError", value |-> <<>>]

\* exec(command, options) once the child has exited: what the call leaves
\* behind.  promisify's executor turns execSync's throw into a rejection and
\* nothing ever calls the callback, so a successful call stays pending.
ExecIgnoresExit(ok) == [promise |-> "pending", thrown |-> FALSE]
ExecSyncDirect(ok) ==
  [promise |-> IF ok THEN "fulfilled" ELSE "none", thrown |-> ~ok]
Exec(ok) ==
  [promise |-> IF ok THEN "pending" ELSE "rejected", thrown |-> FALSE]

\* what the map callback returns for call k: its body is a statement block
\* with no return
CallbackReturnsExecPromise(k) == k
CallbackReturn(k) == 0

\* execSync is synchronous: nothing else runs while a child is running
ThreadNeverBlocked == FALSE
ThreadBlocked == \E k \in DOMAIN invocations : invocations[k].state = "running"

\* Promise.all(mapped)
PromiseSettled(m) == IF m = 0 THEN "fulfilled" ELSE invocations[m].promise
PromiseAnyOutcome(arr) ==
  IF \E k \in DOMAIN arr : PromiseSettled(arr[k]) = "fulfilled" THEN "fulfilled"
  ELSE IF \A k \in DOMAIN arr : PromiseSettled(arr[k]) = "rejected" THEN "rejected"
  ELSE "pending"
PromiseAllOutcome(arr) ==
  IF \E k \in DOMAIN arr : PromiseSettled(arr[k]) = "rejected" THEN "rejected"
  ELSE IF \A k \in DOMAIN arr : PromiseSettled(arr[k]) = "fulfilled" THEN "fulfilled"
  ELSE "pending"

\* what main's promise was rejected with
MainRejectionReason ==
  IF ~ReadFile(file).ok THEN ReadFile(file).error
  ELSE IF ~JSONParse(file).ok THEN JSONParse(file).error
  ELSE "Command failed"

\* the rejected promises nobody handles: those of exec (dropped by the
\* callback unless it returned them to Promise.all) and that of main
UnhandledExec ==
  {k \in DOMAIN invocations :
     invocations[k].promise = "rejected" /\ k \notin Range(mapped)}
FirstUnhandledError ==
  IF UnhandledExec # {}
  THEN "Command failed: "
         \o invocations[CHOOSE k \in UnhandledExec :
                          \A j \in UnhandledExec : k <= j].cmd
  ELSE IF mainPromise = "rejected" THEN MainRejectionReason
  ELSE ""

(***************************************************************************)
(* Initial states: the command line has been parsed                        *)
(***************************************************************************)
Init ==
  /\ tag \in {Undefined} \cup {<<t>> : t \in TagValues}
  /\ file \in Files
  /\ pc = "top"
  /\ summaryRead = FALSE
  /\ publishSummary = <<>>
  /\ i = 1
  /\ mapped = <<>>
  /\ invocations = <<>>
  /\ allPromise = "none"
  /\ mainPromise = "none"
  /\ exitCode = -1
  /\ uncaught = ""

\* the values the state takes
TypeOK ==
  /\ tag \in {Undefined} \cup {<<t>> : t \in TagValues}
  /\ file \in Files
  /\ pc \in {"top", "readFile", "map", "awaitAll", "drain", "exited"}
  /\ summaryRead \in BOOLEAN
  /\ publishSummary \in SeqsUpTo(Entries, MaxEntries)
  /\ i \in 1..(MaxEntries + 1)
  /\ mapped \in SeqsUpTo(0..MaxEntries, MaxEntries)
  /\ Len(invocations) <= MaxEntries
  /\ \A k \in DOMAIN invocations :
       /\ invocations[k].index \in DOMAIN publishSummary
       /\ invocations[k].state \in {"running", "succeeded", "failed"}
       /\ invocations[k].promise \in {"pending", "rejected"}
  /\ allPromise \in {"none", "fulfilled", "rejected"}
  /\ mainPromise \in {"none", "pending", "fulfilled", "rejected"}
  /\ exitCode \in {-1, 0, 1}
  /\ (exitCode = -1) <=> (pc # "exited")

(***************************************************************************)
(* Actions                                                                 *)
(***************************************************************************)
\* if (!tag) throw new Error(...)
ThrowMissingTag ==
  /\ pc = "top"
  /\ Falsy(tag)
  /\ pc' = "exited"
  /\ exitCode' = 1
  /\ uncaught' = "Required option tag not specified"
  /\ UNCHANGED <<tag, file, summaryRead, publishSummary, i, mapped,
                 invocations, allPromise, mainPromise>>

\* main(tag): runs up to the await of readFile
CallMain ==
  /\ pc = "top"
  /\ ~Falsy(tag)
  /\ pc' = "readFile"
  /\ mainPromise' = "pending"
  /\ UNCHANGED <<tag, file, summaryRead, publishSummary, i, mapped,
                 invocations, allPromise, exitCode, uncaught>>

\* the await of readFile throws: main rejects
ReadFileFails ==
  /\ pc = "readFile"
  /\ ~ReadFile(file).ok
  /\ mainPromise' = "rejected"
  /\ pc' = "drain"
  /\ UNCHANGED <<tag, file, summaryRead, publishSummary, i, mapped,
                 invocations, allPromise, exitCode, uncaught>>

\* readFile delivers the text and JSON.parse throws: main rejects
ParseFails ==
  /\ pc = "readFile"
  /\ ReadFile(file).ok
  /\ ~JSONParse(file).ok
  /\ summaryRead' = TRUE
  /\ mainPromise' = "rejected"
  /\ pc' = "drain"
  /\ UNCHANGED <<tag, file, publishSummary, i, mapped, invocations,
                 allPromise, exitCode, uncaught>>

\* let publishSummary = JSON.parse(...), then publishSummary.map begins
ParseOk ==
  /\ pc = "readFile"
  /\ ReadFile(file).ok
  /\ JSONParse(file).ok
  /\ summaryRead' = TRUE
  /\ publishSummary' = JSONParse(file).value
  /\ i' = 1
  /\ pc' = "map"
  /\ UNCHANGED <<tag, file, mapped, invocations, allPromise, mainPromise,
                 exitCode, uncaught>>

\* the callback for entry i calls exec, whose execSync starts the child
ExecSpawn ==
  /\ pc = "map"
  /\ i <= Len(publishSummary)
  /\ ~ThreadBlocked
  /\ invocations' = Append(invocations,
       [cmd |-> CommandFor(publishSummary[i], tag[1]), index |-> i,
        state |-> "running", promise |-> "pending"])
  /\ i' = i + 1
  /\ UNCHANGED <<tag, file, pc, summaryRead, publishSummary, mapped,
                 allPromise, mainPromise, exitCode, uncaught>>

\* the child of call k exits; execSync returns or throws, and the callback
\* returns (or its throw leaves map and main)
ChildExit ==
  /\ pc = "map"
  /\ \E k \in DOMAIN invocations, ok \in BOOLEAN :
       /\ invocations[k].state = "running"
       /\ invocations' = [invocations EXCEPT
            ![k].state = IF ok THEN "succeeded" ELSE "failed",
            ![k].promise = Exec(ok).promise]
       /\ IF Exec(ok).thrown
          THEN /\ mainPromise' = "rejected"
               /\ pc' = "drain"
               /\ mapped' = mapped
          ELSE /\ mapped' = Append(mapped, CallbackReturn(k))
               /\ UNCHANGED <<pc, mainPromise>>
  /\ UNCHANGED <<tag, file, summaryRead, publishSummary, i, allPromise,
                 exitCode, uncaught>>

\* Promise.all(mapped) settles
PromiseAllSettle ==
  /\ pc = "map"
  /\ i > Len(publishSummary)
  /\ ~ThreadBlocked
  /\ PromiseAllOutcome(mapped) # "pending"
  /\ allPromise' = PromiseAllOutcome(mapped)
  /\ pc' = "awaitAll"
  /\ UNCHANGED <<tag, file, summaryRead, publishSummary, i, mapped,
                 invocations, mainPromise, exitCode, uncaught>>

\* main resumes after await Promise.all(...) and ends
MainResume ==
  /\ pc = "awaitAll"
  /\ mainPromise' = allPromise
  /\ pc' = "drain"
  /\ UNCHANGED <<tag, file, summaryRead, publishSummary, i, mapped,
                 invocations, allPromise, exitCode, uncaught>>

\* the microtask queue has drained: an unhandled rejection ends the process
\* with code 1, otherwise nothing keeps the event loop alive and it ends 0
ProcessExit ==
  /\ pc = "drain"
  /\ uncaught' = FirstUnhandledError
  /\ exitCode' = IF FirstUnhandledError # "" THEN 1 ELSE 0
  /\ pc' = "exited"
  /\ UNCHANGED <<tag, file, summaryRead, publishSummary, i, mapped,
                 invocations, allPromise, mainPromise>>

Next ==
  \/ ThrowMissingTag
  \/ CallMain
  \/ ReadFileFails
  \/ ParseFails
  \/ ParseOk
  \/ ExecSpawn
  \/ ChildExit
  \/ PromiseAllSettle
  \/ MainResume
  \/ ProcessExit

Spec == Init /\ [][Next]_vars

\* every step of the script is eventually taken and every child eventually
\* exits
FairSpec == Spec /\ WF_vars(Next)

(***************************************************************************)
(* Properties                                                              *)
(***************************************************************************)
TagMissing == tag = <<>> \/ tag = <<"">>
ValidRun == ~TagMissing /\ file.kind = "json"
BadSummary == file.kind \in {"missing", "unreadable", "invalid"}

Issued == [k \in DOMAIN invocations |-> invocations[k].cmd]
Expected ==
  [k \in DOMAIN file.entries |->
     "npm dist-tag add " \o file.entries[k].packageName \o "@"
       \o file.entries[k].version \o " " \o tag[1]]
Count(s, x) == Cardinality({k \in DOMAIN s : s[k] = x})
Running == {k \in DOMAIN invocations : invocations[k].state = "running"}
Failed == {k \in DOMAIN invocations : invocations[k].state = "failed"}
Succeeded == {k \in DOMAIN invocations : invocations[k].state = "succeeded"}
IssuedFor(k) == {j \in DOMAIN invocations : invocations[j].index = k}

\* C1: with a non-empty tag and a parsed summary, no state holds an
\* invocation that is not a summary entry paired with the run's tag, nor more
\* invocations of a command than the summary has entries for it; and once
\* main has completed, the multiset of issued commands equals the multiset of
\* summary entries paired with the tag.
C1_ExactlyOneInvocationPerEntry ==
  ValidRun =>
    /\ \A c \in Range(Issued) : Count(Issued, c) <= Count(Expected, c)
    /\ mainPromise = "fulfilled" => BagOfSeq(Issued) = BagOfSeq(Expected)

C1_Witness ==
  /\ ValidRun
  /\ mainPromise = "fulfilled"
  /\ Len(file.entries) >= 2
  /\ file.entries[1] = file.entries[2]
  /\ Len(invocations) = Len(file.entries)

\* C2: when --tag is absent or the empty string, main is never called, the
\* summary file is never read and no invocation is ever issued; the only step
\* the script can take is the throw, which ends the process with a non-zero
\* code and the missing-option error.
C2_MissingTagFailsBeforeMain ==
  TagMissing =>
    /\ mainPromise = "none"
    /\ ~summaryRead
    /\ invocations = <<>>
    /\ pc \in {"top", "exited"}
    /\ pc = "top" => ENABLED ThrowMissingTag /\ ~ENABLED CallMain
    /\ pc = "exited" =>
         exitCode = 1 /\ uncaught = "Required option tag not specified"

C2_Witness == tag = <<"">> /\ pc = "exited" /\ exitCode = 1

\* C3: when the summary file is missing, unreadable or not valid JSON, no
\* invocation is issued in any state, main's promise is rejected and the
\* process ends non-zero; in every run an invocation exists only after the
\* summary was read and parsed.
C3_BadSummaryFailsBeforeInvocations ==
  /\ BadSummary =>
       /\ invocations = <<>>
       /\ mainPromise # "fulfilled"
       /\ (pc = "exited" /\ ~TagMissing) =>
            mainPromise = "rejected" /\ exitCode = 1 /\ uncaught # ""
  /\ invocations # <<>> =>
       summaryRead /\ file.kind = "json" /\ publishSummary = file.entries

C3_Witness ==
  /\ file.kind = "invalid"
  /\ summaryRead
  /\ pc = "exited"
  /\ mainPromise = "rejected"

\* C4 (as claimed): whenever an entry is still to be issued, its invocation
\* can be initiated, whether or not an earlier invocation is still running.
C4_SpawnsDoNotWait ==
  (pc = "map" /\ i <= Len(publishSummary)) => ENABLED ExecSpawn

C7_EmptySummarySucceeds ==
  (ValidRun /\ file.entries = <<>>) =>
    /\ invocations = <<>>
    /\ mainPromise # "rejected" /\ allPromise # "rejected"
    /\ pc # "exited" => ENABLED Next
    /\ pc = "exited" =>
         mainPromise = "fulfilled" /\ exitCode = 0 /\ uncaught = ""

C7_Witness ==
  /\ ValidRun
  /\ file.entries = <<>>
  /\ pc = "exited"
  /\ summaryRead

\* C8: a failing command neither stops the fan-out nor is retried: no entry's
\* command is ever issued twice, after a failure the map goes on while entries
\* remain, and at the end of the run every entry's command was issued exactly
\* once.
C8_FailureNeitherStopsNorRetries ==
  ValidRun =>
    /\ \A k \in DOMAIN file.entries : Cardinality(IssuedFor(k)) <= 1
    /\ (Failed # {} /\ i <= Len(publishSummary)) =>
         pc = "map" /\ (Running = {} => ENABLED ExecSpawn)
    /\ pc \in {"awaitAll", "drain", "exited"} =>
         \A k \in DOMAIN file.entries : Cardinality(IssuedFor(k)) = 1

C8_Witness ==
  /\ pc = "exited"
  /\ Len(invocations) = 2
  /\ invocations[1].state = "failed"
  /\ invocations[2].state = "succeeded"

\* C9: invocations are initiated in summary order and one at a time: the
\* j-th invocation is that of entry j, every invocation before the latest has
\* completed, and at most one command is in flight.
C9_OneAtATimeInArrayOrder ==
  /\ Cardinality(Running) <= 1
  /\ \A j \in DOMAIN invocations :
       /\ invocations[j].index = j
       /\ j < Len(invocations) => invocations[j].state # "running"

C9_Witness ==
  /\ Len(invocations) = 2
  /\ invocations[1].state \in {"succeeded", "failed"}
  /\ invocations[2].state = "running"

\* C10: with a non-empty tag and a well-formed summary, when every command
\* eventually returns, the run eventually has issued every invocation and
\* Promise.all has resolved; it resolves although the promise of every
\* command that succeeded is still pending.
C10_EventuallyAllIssuedAndResolved ==
  /\ (pc = "top" /\ ValidRun) ~>
       (allPromise = "fulfilled" /\ Len(invocations) = Len(file.entries))
  /\ [](allPromise = "fulfilled" =>
          \A k \in Succeeded : invocations[k].promise = "pending")

C10_Witness ==
  /\ allPromise = "fulfilled"
  /\ Cardinality(Succeeded) = 2
  /\ \A k \in Succeeded : invocations[k].promise = "pending"

=============================================================================
